---- MODULE Spec2Model ----
(***************************************************************************)
(* Model of the Clarify-Verify pipeline loop (src/src/pipeline.py,         *)
(* Pipeline.run) together with the verifier it calls                       *)
(* (src/src/verifier.py).  The code generator and the external tools are   *)
(* collaborators: each call either returns one of a small set of values or *)
(* raises.                                                                 *)
(***************************************************************************)
EXTENDS Integers, Sequences, FiniteSets, TLC

VARIABLES
    config,                 \* the configuration dict read by Pipeline.__init__ / run
    pc,                     \* position of Pipeline.run
    uml_diagram,            \* run's local uml_diagram ("None" or a diagram)
    range_pos,              \* position of the iterator of range(self.max_iterations)
    iteration,              \* run's loop variable (0-based)
    iterations,             \* run's local iterations
    current_code,           \* run's local current_code
    current_tests,          \* run's local current_tests
    results,                \* run's local results (the last verify's return value)
    verification_results,   \* run's local verification_results
    final_status,           \* run's local final_status
    error_summary,          \* run's local error_summary
    metrics,                \* run's local metrics
    genCalls,               \* history: calls of code_generator.generate
    verifyCalls,            \* history: calls of verifier.verify
    repairCalls,            \* history: calls of code_generator.repair_code
    raised,                 \* history: the collaborator call that raised, if any
    firstTests,             \* history: tests returned by the first generate
    verified,               \* history: <<code, tests>> given to the last verify
    repairRet,              \* history: code returned by the last repair_code
    genHint,                \* history: design hint given to the last generate
    uml_diagrams,           \* run's local uml_diagrams
    passStart,              \* history: <<code, tests>> held when the pass began
    venv,                   \* verify: the behaviour of the tools in this call
    vpc,                    \* verify: position inside Verifier.verify
    tmp,                    \* verify: the temporary files and directories alive
    vres,                   \* verify: its local results
    pending,                \* verify: the result a linter is returning
    vexc,                   \* verify: an exception is leaving _run_flake8
    cancel_requested,       \* caller: a cancellation of the run has been asked for
    response                \* generate: the text the LLM client returned

vars == <<config, pc, uml_diagram, range_pos, iteration, iterations,
          current_code, current_tests, results, verification_results,
          final_status, error_summary, metrics, genCalls, verifyCalls,
          repairCalls, raised, firstTests, verified, repairRet, genHint,
          uml_diagrams, passStart, venv, vpc, tmp, vres, pending, vexc,
          cancel_requested, response>>

---------------------------------------------------------------------------
(* Bounds of the model *)

\* largest configured max_iterations explored
MaxIter == 3

---------------------------------------------------------------------------
(* Values of the collaborators *)

None == "None"

\* An artifact text is <<origin, k>>: the text returned by the k-th call of
\* its origin.  The responses of the language model are opaque, so every call
\* returns a text of its own; "" is the text run starts with.
EmptyText == <<"", 0>>

\* what the k-th call of code_generator.generate returns:
\* <<generated.code, generated.tests>>
GenOutputs(k) == { << <<"code", k>>, <<"tests", k>> >> }

\* what the k-th call of code_generator.repair_code returns
RepairOutputs(k) == { <<"repaired", k>> }

NoText == <<"None", 0>>

\* what uml_generator.generate_sequence_diagram may return (its plantuml_code)
UmlOutputs == {"uml1"}

Languages == {"python", "java"}

---------------------------------------------------------------------------
(* verifier.py: VerificationStatus and VerificationResult *)

PASS == "pass"
FAIL == "fail"
ERROR == "error"
SKIPPED == "skipped"

\* the output text of a result is free text no decision reads; it is not kept
VerificationResult(status, tool, errors, warnings) ==
    [status |-> status, tool |-> tool, errors |-> errors, warnings |-> warnings]

\* no result is being returned
NoResult == VerificationResult("none", "none", <<>>, <<>>)

---------------------------------------------------------------------------
(* The environment of one verify call: how each external tool behaves *)

\* str(e) of an exception the environment raises, and of the TimeoutExpired
\* that subprocess.run raises
ExceptionText == "str(e)"
TimeoutExpiredText == "Command timed out after 10 seconds"

\* lines a linter may print; stdout is modelled as stdout.split('\n')
ErrorLines == {"E: e1", "E: e2", "E: e3", "E: e4"}
WarningLines == {"W: w1"}

\* 'error' in line.lower() or 'E:' in line
IsErrorLine(line) == line \in ErrorLines

\* 'warning' in line.lower() or 'W:' in line
IsWarningLine(line) == line \in WarningLines

\* pytest: the temporary directory cannot be prepared, the run times out,
\* subprocess.run raises, or the run completes with a return code and stderr
\* ("python" is missing: notfound), or the files cannot be written
TestsEnv ==
    {"tmpdir_raises", "write_raises", "notfound", "timeout", "run_raises",
     "rc0", "rc1", "rc1_stderr"}

NoEnv == [kind |-> "unused", rc |-> 0, stdout |-> <<>>]

\* pylint: the temporary file cannot be created, the code cannot be written
\* to it, the tool is missing, the run times out, subprocess.run raises, or
\* the run completes and prints stdout
PylintStdouts == {<<>>, <<"E: e1", "W: w1", "">>}

PylintEnv ==
    [kind : {"tmpfile_raises", "write_raises", "notfound", "timeout", "raises"},
     rc : {0}, stdout : {<<>>}]
    \cup [kind : {"done"}, rc : {0}, stdout : PylintStdouts]

\* flake8: as pylint; it exits with 1 exactly when it prints violations
Flake8Env ==
    [kind : {"tmpfile_raises", "write_raises", "notfound", "timeout", "raises"},
     rc : {0}, stdout : {<<>>}]
    \cup {[kind |-> "done", rc |-> 0, stdout |-> <<>>],
          [kind |-> "done", rc |-> 1, stdout |-> <<"E: e1", "">>]}

\* the tools a verify call of this configuration reaches, each with a
\* behaviour: flake8 is reached only when pylint is missing
LinterEnvOf(cfg) ==
    IF cfg.run_linter /\ cfg.language = "python"
    THEN { <<pe, NoEnv>> : pe \in { e \in PylintEnv : e.kind # "notfound" } }
         \cup { <<pe, fe>> : pe \in { e \in PylintEnv : e.kind = "notfound" },
                             fe \in Flake8Env }
    ELSE { <<NoEnv, NoEnv>> }

\* no verify call is in progress
NoVerifyEnv == [tests |-> "unused", pylint |-> NoEnv, flake8 |-> NoEnv]

VerifyEnvOf(cfg) ==
    LET t == IF cfg.run_tests /\ cfg.language = "python"
             THEN TestsEnv ELSE {"unused"}
    IN  { [tests |-> te, pylint |-> le[1], flake8 |-> le[2]] :
            te \in t, le \in LinterEnvOf(cfg) }

---------------------------------------------------------------------------
(* verifier.py: the checks *)

\* lines 211-216: the error lines of stdout (errorsWanted), or its warning
\* lines (an error line is never a warning: elif), in order
RECURSIVE SelectLines(_, _)
SelectLines(s, errorsWanted) ==
    IF s = <<>> THEN <<>>
    ELSE LET h == Head(s)
             keep == IF errorsWanted THEN IsErrorLine(h)
                     ELSE (~IsErrorLine(h)) /\ IsWarningLine(h)
         IN  (IF keep THEN <<h>> ELSE <<>>) \o SelectLines(Tail(s), errorsWanted)

\* line 121: result.returncode + result.stderr adds an int to a str
LogPytestReturnRaises == TRUE

\* lines 123-138: the result of a completed pytest run
PytestCompleted(rc, stderr) ==
    IF rc = 0
    THEN VerificationResult(PASS, "tests", <<>>, <<>>)
    ELSE VerificationResult(FAIL, "tests",
                            IF stderr # "" THEN <<stderr>> ELSE <<>>, <<>>)

\* a timeout handler whose bare return is not replaced by the finally clause
_run_python_tests_NoResult(env) ==
    IF env = "timeout" THEN NoResult
    ELSE VerificationResult(ERROR, "tests", <<ExceptionText>>, <<>>)

_run_python_tests(env) ==
    CASE env \in {"tmpdir_raises", "write_raises"} ->
           VerificationResult(ERROR, "tests", <<ExceptionText>>, <<>>)
      [] env = "timeout" ->
           VerificationResult(ERROR, "tests", <<"Timeout">>, <<>>)
      [] env \in {"run_raises", "notfound"} ->
           VerificationResult(ERROR, "tests", <<ExceptionText>>, <<>>)
      [] OTHER ->
           IF LogPytestReturnRaises
           THEN VerificationResult(ERROR, "tests", <<ExceptionText>>, <<>>)
           ELSE PytestCompleted(IF env = "rc0" THEN 0 ELSE 1,
                                IF env = "rc1_stderr" THEN "stderr" ELSE "")

\* an unsupported language reported as an error
_run_tests_Unsupported(language, env) ==
    IF language = "python"
    THEN _run_python_tests(env)
    ELSE VerificationResult(ERROR, "tests", <<"unsupported">>, <<>>)

_run_tests(language, env) ==
    IF language = "python"
    THEN _run_python_tests(env)
    ELSE VerificationResult(SKIPPED, "tests", <<>>, <<>>)

_run_flake8(env) ==
    CASE env.kind = "done" ->
           VerificationResult(IF env.rc = 0 THEN PASS ELSE FAIL, "linter",
                              env.stdout, <<>>)
      [] env.kind = "notfound" ->
           VerificationResult(SKIPPED, "linter", <<>>, <<>>)
      [] env.kind = "timeout" ->
           VerificationResult(ERROR, "linter", <<TimeoutExpiredText>>, <<>>)
      [] OTHER ->
           VerificationResult(ERROR, "linter", <<ExceptionText>>, <<>>)

_run_pylint(env, flake8env) ==
    CASE env.kind = "done" ->
           LET errors == SelectLines(env.stdout, TRUE)
               warnings == SelectLines(env.stdout, FALSE)
           IN  VerificationResult(IF errors = <<>> THEN PASS ELSE FAIL,
                                  "linter", errors, warnings)
      [] env.kind = "notfound" -> _run_flake8(flake8env)
      [] env.kind = "timeout" ->
           VerificationResult(ERROR, "linter", <<TimeoutExpiredText>>, <<>>)
      [] OTHER ->
           VerificationResult(ERROR, "linter", <<ExceptionText>>, <<>>)

_run_linter(language, env, flake8env) ==
    IF language = "python"
    THEN _run_pylint(env, flake8env)
    ELSE VerificationResult(SKIPPED, "linter", <<>>, <<>>)

_run_formal_verification ==
    VerificationResult(SKIPPED, "formal", <<>>,
                       <<"Verificacao formal requer configuracao adicional">>)

\* lines 195-197, 243-245: creating or writing the temporary file fails
TmpFileRaises(env) == env.kind \in {"tmpfile_raises", "write_raises"}

\* the temporary file of a linter is created and written outside its try
\* block: a failure there leaves _run_pylint / _run_flake8, and so verify, by
\* an exception
LinterRaises(language, env, flake8env) ==
    /\ language = "python"
    /\ \/ TmpFileRaises(env)
       \/ env.kind = "notfound" /\ TmpFileRaises(flake8env)

VerifyRaises(cfg, env) ==
    cfg.run_linter /\ LinterRaises(cfg.language, env.pylint, env.flake8)

verify(cfg, env) ==
    (IF cfg.run_tests THEN <<_run_tests(cfg.language, env.tests)>> ELSE <<>>)
    \o (IF cfg.run_linter
        THEN <<_run_linter(cfg.language, env.pylint, env.flake8)>> ELSE <<>>)
    \o (IF cfg.run_formal THEN <<_run_formal_verification>> ELSE <<>>)


---------------------------------------------------------------------------
(* verifier.py: get_error_summary.  A text is the sequence of its pieces *)

Min(a, b) == IF a < b THEN a ELSE b

\* sep.join(parts), every part a text
RECURSIVE Join(_, _)
Join(parts, sep) ==
    IF parts = <<>> THEN <<>>
    ELSE IF Len(parts) = 1 THEN Head(parts)
    ELSE Head(parts) \o <<sep>> \o Join(Tail(parts), sep)

\* [ <<x>> : x in s ], every string a one-piece text
RECURSIVE AsTexts(_)
AsTexts(s) == IF s = <<>> THEN <<>> ELSE <<<<Head(s)>>>> \o AsTexts(Tail(s))

\* a digest that keeps one error too many: result.errors[:4]
FirstErrors_Four(errors) == SubSeq(errors, 1, Min(4, Len(errors)))

\* result.errors[:3]
FirstErrors(errors) == SubSeq(errors, 1, Min(3, Len(errors)))

\* f"[{result.tool}] {chr(10).join(result.errors[:3])}"
SummaryEntry(result) ==
    <<"[", result.tool, "] ">> \o Join(AsTexts(FirstErrors(result.errors)), "\n")

\* a digest that has an entry for every result, whatever its status
SummaryEntries_AnyStatus(rs) == [i \in 1..Len(rs) |-> SummaryEntry(rs[i])]

\* the entries of the results whose status is FAIL, in order
RECURSIVE SummaryEntries(_)
SummaryEntries(rs) ==
    IF rs = <<>> THEN <<>>
    ELSE (IF Head(rs).status = FAIL THEN <<SummaryEntry(Head(rs))>> ELSE <<>>)
         \o SummaryEntries(Tail(rs))

get_error_summary(rs) == Join(SummaryEntries(rs), "\n\n")

---------------------------------------------------------------------------
(* pipeline.py: Pipeline._calculate_metrics *)

\* metrics of an empty run with every field present and zero
EmptyMetrics_Zeroed ==
    [iterations |-> 0, tests_passed |-> FALSE, linter_passed |-> FALSE,
     total_verifications |-> 0, passed_verifications |-> 0]

EmptyMetrics == [k \in {} |-> 0]

\* sum(1 for r in results if r['status'] == 'pass')
RECURSIVE CountPass(_)
CountPass(rs) ==
    IF rs = <<>> THEN 0
    ELSE (IF Head(rs).status = PASS THEN 1 ELSE 0) + CountPass(Tail(rs))

\* any(r['tool'] == tool and r['status'] == 'pass' for r in results)
ToolPassed(rs, tool) ==
    \E i \in 1..Len(rs) : rs[i].tool = tool /\ rs[i].status = PASS

\* metrics taken from the first record: verification_results[0]
_calculate_metrics_First(vresults, its) ==
    IF vresults = <<>> THEN EmptyMetrics
    ELSE LET first == vresults[1].results
         IN  [iterations |-> its,
              tests_passed |-> ToolPassed(first, "tests"),
              linter_passed |-> ToolPassed(first, "linter"),
              total_verifications |-> Len(first),
              passed_verifications |-> CountPass(first)]

_calculate_metrics(vresults, its) ==
    IF vresults = <<>> THEN EmptyMetrics
    ELSE LET last == vresults[Len(vresults)].results
         IN  [iterations |-> its,
              tests_passed |-> ToolPassed(last, "tests"),
              linter_passed |-> ToolPassed(last, "linter"),
              total_verifications |-> Len(last),
              passed_verifications |-> CountPass(last)]

---------------------------------------------------------------------------
(* pipeline.py: Pipeline.run *)

Configs ==
    [max_iterations : 0..MaxIter, run_tests : BOOLEAN, run_linter : BOOLEAN,
     run_formal : BOOLEAN, language : Languages, generate_uml : BOOLEAN]

Init ==
    /\ config \in Configs
    /\ pc = "uml"
    /\ uml_diagram = None
    /\ uml_diagrams = <<>>
    /\ range_pos = 0
    /\ iteration = 0
    /\ iterations = 0
    /\ current_code = EmptyText
    /\ current_tests = EmptyText
    /\ results = <<>>
    /\ verification_results = <<>>
    /\ final_status = "unknown"
    /\ error_summary = <<>>
    /\ metrics = EmptyMetrics
    /\ genCalls = 0
    /\ verifyCalls = 0
    /\ repairCalls = 0
    /\ raised = None
    /\ firstTests = NoText
    /\ verified = <<NoText, NoText>>
    /\ repairRet = NoText
    /\ genHint = None
    /\ passStart = <<NoText, NoText>>
    /\ venv = NoVerifyEnv
    /\ vpc = "idle"
    /\ tmp = {}
    /\ vres = <<>>
    /\ pending = NoResult
    /\ vexc = FALSE
    /\ cancel_requested = FALSE
    /\ response = <<>>

\* a loop bound that is off by one: range(self.max_iterations + 1)
LoopContinues_OffByOne == range_pos <= config.max_iterations

\* line 136: the iterator of range(self.max_iterations) has another value
LoopContinues == range_pos < config.max_iterations

\* a pass decision that wants at least one result
all_passed_NonEmpty(rs) ==
    Len(rs) > 0 /\ \A i \in 1..Len(rs) : rs[i].status = PASS

\* a pass decision that only looks for failed checks
all_passed_NoFail(rs) == \A i \in 1..Len(rs) : rs[i].status # FAIL

\* a pass decision that lets a skipped check count as passed
all_passed_Lenient(rs) == \A i \in 1..Len(rs) : rs[i].status \in {PASS, SKIPPED}

\* line 175: all(r.status.value == 'pass' for r in results)
all_passed(rs) == \A i \in 1..Len(rs) : rs[i].status = PASS

\* a repair guard that also repairs after the last iteration
HasRepairBudget_Late == iteration < config.max_iterations

\* a repair guard that gives up one iteration early
HasRepairBudget_Early == iteration < config.max_iterations - 2

\* line 182: iteration < self.max_iterations - 1
HasRepairBudget == iteration < config.max_iterations - 1

loopVars == <<range_pos, iteration, iterations>>
artifactVars == <<current_code, current_tests>>
verifyVars == <<results, verification_results>>
umlVars == <<uml_diagram, uml_diagrams>>
callVars == <<genCalls, verifyCalls, repairCalls>>
histVars == <<firstTests, verified, repairRet, genHint, passStart>>
verifierVars == <<venv, vpc, tmp, vres, pending, vexc>>
pipelineVars == <<pc, umlVars, loopVars, artifactVars, verifyVars, final_status,
                  error_summary, metrics, callVars, raised, histVars>>

\* lines 117-118: generate_uml is off
UmlSkip ==
    /\ pc = "uml"
    /\ ~config.generate_uml
    /\ pc' = "loop"
    /\ UNCHANGED <<response, cancel_requested, verifierVars, config,
                   umlVars, loopVars, artifactVars, verifyVars,
                   final_status, error_summary, metrics, callVars, raised,
                   histVars>>

\* lines 119-126: generate_sequence_diagram returns
UmlOk ==
    /\ pc = "uml"
    /\ config.generate_uml
    /\ \E d \in UmlOutputs :
         /\ uml_diagram' = d
         /\ uml_diagrams' = Append(uml_diagrams, d)
    /\ pc' = "loop"
    /\ UNCHANGED <<response, cancel_requested, verifierVars, config,
                   loopVars, artifactVars, verifyVars,
                   final_status, error_summary, metrics, callVars, raised,
                   histVars>>

\* a diagram failure that ends the run before the loop
UmlRaise_Stop ==
    /\ pc = "uml"
    /\ config.generate_uml
    /\ pc' = "finish"
    /\ UNCHANGED <<response, cancel_requested, verifierVars, config, umlVars,
                   loopVars, artifactVars, verifyVars, final_status,
                   error_summary, metrics, callVars, raised, histVars>>

\* lines 127-128: generate_sequence_diagram raises
UmlRaise ==
    /\ pc = "uml"
    /\ config.generate_uml
    /\ pc' = "loop"
    /\ UNCHANGED <<response, cancel_requested, verifierVars, config,
                   umlVars, loopVars, artifactVars, verifyVars,
                   final_status, error_summary, metrics, callVars, raised,
                   histVars>>

\* lines 136-137: the for loop takes its next value
LoopEnter ==
    /\ pc = "loop"
    /\ LoopContinues
    /\ iteration' = range_pos
    /\ range_pos' = range_pos + 1
    /\ iterations' = range_pos + 1
    /\ passStart' = <<current_code, current_tests>>
    /\ pc' = "generate"
    /\ UNCHANGED <<response, cancel_requested, verifierVars, config,
                   umlVars, artifactVars, verifyVars, final_status,
                   error_summary, metrics, callVars, raised, firstTests,
                   verified, repairRet, genHint>>

\* line 136: the range is exhausted
LoopExit ==
    /\ pc = "loop"
    /\ ~LoopContinues
    /\ pc' = "finish"
    /\ UNCHANGED <<response, cancel_requested, verifierVars, config,
                   umlVars, loopVars, artifactVars, verifyVars,
                   final_status, error_summary, metrics, callVars, raised,
                   histVars>>

\* lines 141-147: code_generator.generate returns
GenerateOk ==
    /\ pc = "generate"
    /\ \E g \in GenOutputs(genCalls + 1) :
         /\ current_code' = g[1]
         /\ current_tests' = g[2]
         /\ firstTests' = IF firstTests = NoText THEN g[2] ELSE firstTests
    /\ genCalls' = genCalls + 1
    /\ genHint' = uml_diagram
    /\ pc' = "verify"
    /\ UNCHANGED <<response, cancel_requested, verifierVars, config,
                   umlVars, loopVars, verifyVars, final_status,
                   error_summary, metrics, verifyCalls, repairCalls, raised,
                   verified, repairRet, passStart>>

\* a handler that logs the generation error and goes on to verify
GenerateRaise_Continue ==
    /\ pc = "generate"
    /\ genCalls' = genCalls + 1
    /\ genHint' = uml_diagram
    /\ raised' = "generate"
    /\ pc' = "verify"
    /\ UNCHANGED <<response, cancel_requested, verifierVars, config,
                   umlVars, loopVars, artifactVars,
                   verifyVars, final_status, error_summary, metrics,
                   verifyCalls, repairCalls, firstTests, verified, repairRet,
                   passStart>>

\* lines 148-150: code_generator.generate raises; break
GenerateRaise ==
    /\ pc = "generate"
    /\ genCalls' = genCalls + 1
    /\ genHint' = uml_diagram
    /\ raised' = "generate"
    /\ pc' = "finish"
    /\ UNCHANGED <<response, cancel_requested, verifierVars, config,
                   umlVars, loopVars, artifactVars, verifyVars,
                   final_status, error_summary, metrics, verifyCalls,
                   repairCalls, firstTests, verified, repairRet,
                   passStart>>

\* lines 154-172: verifier.verify returns and its results are recorded
VerifyReturn ==
    /\ pc = "verify"
    /\ \E env \in VerifyEnvOf(config) :
         /\ ~VerifyRaises(config, env)
         /\ results' = verify(config, env)
         /\ verification_results' =
              Append(verification_results,
                     [iteration |-> iteration + 1, results |-> results'])
    /\ verifyCalls' = verifyCalls + 1
    /\ verified' = <<current_code, current_tests>>
    /\ pc' = "decide"
    /\ UNCHANGED <<response, cancel_requested, verifierVars, config,
                   umlVars, loopVars, artifactVars, final_status,
                   error_summary, metrics, genCalls, repairCalls, raised,
                   firstTests, repairRet, genHint, passStart>>

\* lines 154-158: verifier.verify raises, and so does run
VerifyRaise ==
    /\ pc = "verify"
    /\ \E env \in VerifyEnvOf(config) : VerifyRaises(config, env)
    /\ verifyCalls' = verifyCalls + 1
    /\ verified' = <<current_code, current_tests>>
    /\ raised' = "verify"
    /\ pc' = "raised"
    /\ UNCHANGED <<response, cancel_requested, verifierVars, config,
                   umlVars, loopVars, artifactVars, verifyVars,
                   final_status, error_summary, metrics, genCalls, repairCalls,
                   firstTests, repairRet, genHint, passStart>>

\* lines 175-179: every verification passed; break
DecideSuccess ==
    /\ pc = "decide"
    /\ all_passed(results)
    /\ final_status' = "success"
    /\ pc' = "finish"
    /\ UNCHANGED <<response, cancel_requested, verifierVars, config,
                   umlVars, loopVars, artifactVars, verifyVars,
                   error_summary, metrics, callVars, raised, histVars>>

\* a summary that is computed once and kept for the later repairs
DecideRepair_Stale ==
    /\ pc = "decide"
    /\ ~all_passed(results)
    /\ HasRepairBudget
    /\ error_summary' = IF error_summary = <<>>
                        THEN get_error_summary(results) ELSE error_summary
    /\ pc' = "repair"
    /\ UNCHANGED <<response, cancel_requested, verifierVars, config, umlVars,
                   loopVars, artifactVars, verifyVars, final_status, metrics,
                   callVars, raised, histVars>>

\* lines 182-183: not passed and iterations remain; the summary is computed
DecideRepair ==
    /\ pc = "decide"
    /\ ~all_passed(results)
    /\ HasRepairBudget
    /\ error_summary' = get_error_summary(results)
    /\ pc' = "repair"
    /\ UNCHANGED <<response, cancel_requested, verifierVars, config,
                   umlVars, loopVars, artifactVars, verifyVars,
                   final_status, metrics, callVars, raised, histVars>>

\* lines 193-194: not passed on the last iteration
DecideFailed ==
    /\ pc = "decide"
    /\ ~all_passed(results)
    /\ ~HasRepairBudget
    /\ final_status' = "failed"
    /\ pc' = "loop"
    /\ UNCHANGED <<response, cancel_requested, verifierVars, config,
                   umlVars, loopVars, artifactVars, verifyVars,
                   error_summary, metrics, callVars, raised, histVars>>

\* lines 184-189: code_generator.repair_code returns
RepairOk ==
    /\ pc = "repair"
    /\ \E c \in RepairOutputs(repairCalls + 1) :
         /\ current_code' = c
         /\ repairRet' = c
    /\ repairCalls' = repairCalls + 1
    /\ pc' = "loop"
    /\ UNCHANGED <<response, cancel_requested, verifierVars, config,
                   umlVars, loopVars, current_tests, verifyVars,
                   final_status, error_summary, metrics, genCalls, verifyCalls,
                   raised, firstTests, verified, genHint, passStart>>

\* a handler that logs the repair error and goes on with the next iteration
RepairRaise_Continue ==
    /\ pc = "repair"
    /\ repairCalls' = repairCalls + 1
    /\ raised' = "repair"
    /\ pc' = "loop"
    /\ UNCHANGED <<response, cancel_requested, verifierVars, config,
                   umlVars, loopVars, artifactVars,
                   verifyVars, final_status, error_summary, metrics, genCalls,
                   verifyCalls, histVars>>

\* lines 190-192: code_generator.repair_code raises; break
RepairRaise ==
    /\ pc = "repair"
    /\ repairCalls' = repairCalls + 1
    /\ raised' = "repair"
    /\ pc' = "finish"
    /\ UNCHANGED <<response, cancel_requested, verifierVars, config,
                   umlVars, loopVars, artifactVars, verifyVars,
                   final_status, error_summary, metrics, genCalls, verifyCalls,
                   histVars>>

\* lines 196-212: the metrics are computed and the PipelineResult is returned
Finish ==
    /\ pc = "finish"
    /\ metrics' = _calculate_metrics(verification_results, iterations)
    /\ pc' = "done"
    /\ UNCHANGED <<response, cancel_requested, verifierVars, config,
                   umlVars, loopVars, artifactVars, verifyVars,
                   final_status, error_summary, callVars, raised, histVars>>

Next ==
    \/ UmlSkip
    \/ UmlOk
    \/ UmlRaise
    \/ LoopEnter
    \/ LoopExit
    \/ GenerateOk
    \/ GenerateRaise
    \/ VerifyReturn
    \/ VerifyRaise
    \/ DecideSuccess
    \/ DecideRepair
    \/ DecideFailed
    \/ RepairOk
    \/ RepairRaise
    \/ Finish

Spec == Init /\ [][Next]_vars

---------------------------------------------------------------------------
(* verifier.py: Verifier.verify step by step, with the temporary files and  *)
(* directories its checks create and release                                *)

TestsDir == "tests_dir"
PylintFile == "pylint_file"
Flake8File == "flake8_file"

\* lines 65-67: verify is called; the tools will behave as venv says
VStart ==
    /\ vpc = "idle"
    /\ venv' \in VerifyEnvOf(config)
    /\ vres' = <<>>
    /\ vpc' = "tests"
    /\ UNCHANGED <<response, cancel_requested, config, pipelineVars, tmp, pending, vexc>>

\* lines 67, 86-95: the tests check is disabled, or the language is not python
VTestsNotRun ==
    /\ vpc = "tests"
    /\ ~(config.run_tests /\ config.language = "python")
    /\ vres' = IF config.run_tests
               THEN Append(vres, _run_tests(config.language, venv.tests))
               ELSE vres
    /\ vpc' = "linter"
    /\ UNCHANGED <<response, cancel_requested, config, pipelineVars, venv, tmp, pending, vexc>>

\* lines 99-109: TemporaryDirectory() is entered and the files are written
VTestsEnter ==
    /\ vpc = "tests"
    /\ config.run_tests /\ config.language = "python"
    /\ IF venv.tests = "tmpdir_raises"
       THEN \* lines 160-171: nothing was created
            /\ vres' = Append(vres, _run_python_tests(venv.tests))
            /\ vpc' = "linter"
            /\ tmp' = tmp
       ELSE /\ tmp' = tmp \cup {TestsDir}
            /\ vpc' = "tests_run"
            /\ vres' = vres
    /\ UNCHANGED <<response, cancel_requested, config, pipelineVars, venv, pending, vexc>>

\* lines 105-171: the with block is left, by a return or by an exception, and
\* the directory is removed; the finally clause returns the result
VTestsExit ==
    /\ vpc = "tests_run"
    /\ tmp' = tmp \ {TestsDir}
    /\ vres' = Append(vres, _run_python_tests(venv.tests))
    /\ vpc' = "linter"
    /\ UNCHANGED <<response, cancel_requested, config, pipelineVars, venv, pending, vexc>>

\* lines 72, 182-191: the linter check is disabled, or the language is not
\* python
VLinterNotRun ==
    /\ vpc = "linter"
    /\ ~(config.run_linter /\ config.language = "python")
    /\ vres' = IF config.run_linter
               THEN Append(vres, _run_linter(config.language, venv.pylint,
                                             venv.flake8))
               ELSE vres
    /\ vpc' = "formal"
    /\ UNCHANGED <<response, cancel_requested, config, pipelineVars, venv, tmp, pending, vexc>>

\* lines 195-197: NamedTemporaryFile(delete=False) and f.write(code), outside
\* the try block
VPylintCreate ==
    /\ vpc = "linter"
    /\ config.run_linter /\ config.language = "python"
    /\ tmp' = IF venv.pylint.kind = "tmpfile_raises"
              THEN tmp ELSE tmp \cup {PylintFile}
    /\ vpc' = IF TmpFileRaises(venv.pylint) THEN "raised" ELSE "pylint_run"
    /\ UNCHANGED <<response, cancel_requested, config, pipelineVars, venv, vres, pending, vexc>>

\* lines 199-237: pylint runs; its result, or the call of _run_flake8, is on
\* its way through the finally clause
VPylintRun ==
    /\ vpc = "pylint_run"
    /\ IF venv.pylint.kind = "notfound"
       THEN /\ vpc' = "flake8_create"
            /\ pending' = pending
       ELSE /\ vpc' = "pylint_finally"
            /\ pending' = _run_pylint(venv.pylint, venv.flake8)
    /\ UNCHANGED <<response, cancel_requested, config, pipelineVars, venv, tmp, vres, vexc>>

\* lines 243-245: NamedTemporaryFile(delete=False) and f.write(code) of
\* _run_flake8, outside its try block
VFlake8Create ==
    /\ vpc = "flake8_create"
    /\ tmp' = IF venv.flake8.kind = "tmpfile_raises"
              THEN tmp ELSE tmp \cup {Flake8File}
    /\ vexc' = TmpFileRaises(venv.flake8)
    /\ vpc' = IF TmpFileRaises(venv.flake8)
              THEN "pylint_finally" ELSE "flake8_run"
    /\ UNCHANGED <<response, cancel_requested, config, pipelineVars, venv, vres, pending>>

\* lines 247-282: flake8 runs and its finally clause unlinks its file
VFlake8Exit ==
    /\ vpc = "flake8_run"
    /\ pending' = _run_flake8(venv.flake8)
    /\ tmp' = tmp \ {Flake8File}
    /\ vpc' = "pylint_finally"
    /\ UNCHANGED <<response, cancel_requested, config, pipelineVars, venv, vres, vexc>>

\* lines 238-239, 74-75: the finally clause of _run_pylint unlinks its file;
\* the result is appended, or the exception of _run_flake8 goes on
VPylintFinally ==
    /\ vpc = "pylint_finally"
    /\ tmp' = tmp \ {PylintFile}
    /\ IF vexc
       THEN /\ vpc' = "raised"
            /\ vres' = vres
       ELSE /\ vpc' = "formal"
            /\ vres' = Append(vres, pending)
    /\ UNCHANGED <<response, cancel_requested, config, pipelineVars, venv, pending, vexc>>

\* a formal check that reports skipped even when it is disabled
VFormalReturn_Always ==
    /\ vpc = "formal"
    /\ vres' = Append(vres, _run_formal_verification)
    /\ vpc' = "returned"
    /\ UNCHANGED <<response, cancel_requested, config, pipelineVars, venv, tmp, pending, vexc>>

\* lines 77-82: the formal check, and verify returns
VFormalReturn ==
    /\ vpc = "formal"
    /\ vres' = IF config.run_formal
               THEN Append(vres, _run_formal_verification) ELSE vres
    /\ vpc' = "returned"
    /\ UNCHANGED <<response, cancel_requested, config, pipelineVars, venv, tmp, pending, vexc>>

NextVerifier ==
    \/ VStart
    \/ VTestsNotRun
    \/ VTestsEnter
    \/ VTestsExit
    \/ VLinterNotRun
    \/ VPylintCreate
    \/ VPylintRun
    \/ VFlake8Create
    \/ VFlake8Exit
    \/ VPylintFinally
    \/ VFormalReturn

\* one call of Verifier.verify, for every configuration and tool behaviour
SpecVerifier == Init /\ [][NextVerifier]_vars

\* verify has returned its results / has been left by an exception
VerifyReturned == vpc = "returned"
VerifyRaised == vpc = "raised"

\* the steps of verify end as the operators verify and VerifyRaises say
StepsAgreeWithVerify ==
    /\ VerifyReturned => ~VerifyRaises(config, venv) /\ vres = verify(config, venv)
    /\ VerifyRaised => VerifyRaises(config, venv)

---------------------------------------------------------------------------
(* The aggregation functions applied to given results:                      *)
(* Verifier.get_error_summary and Pipeline._calculate_metrics               *)

\* most errors a given result carries
MaxErrors == 4

\* most results of a given list
MaxOutcomes == 2

ErrorNames == <<"e1", "e2", "e3", "e4", "e5", "e6">>

\* the error lists of the given results: e1..en, and one out of order
ErrorLists ==
    { SubSeq(ErrorNames, 1, n) : n \in 0..MaxErrors } \cup { <<"e2", "e1">> }

\* the given results: any status, with or without errors
OutcomeInputs ==
    { VerificationResult(s, t, e, <<>>) :
        s \in {PASS, FAIL, ERROR, SKIPPED}, t \in {"tests", "linter"},
        e \in ErrorLists }

OutcomeLists == UNION { [1..n -> OutcomeInputs] : n \in 0..MaxOutcomes }

\* the records of the iterations before the last one: none, or one that passed
EarlierRecords ==
    { <<>>,
      <<[iteration |-> 1,
         results |-> <<VerificationResult(PASS, "tests", <<>>, <<>>),
                       VerificationResult(PASS, "linter", <<>>, <<>>)>>]>> }

InitSummary ==
    /\ config \in { c \in Configs :
                      /\ c.max_iterations = MaxIter
                      /\ c.run_tests /\ c.run_linter /\ c.run_formal
                      /\ c.language = "python" /\ ~c.generate_uml }
    /\ pc = "call_summary"
    /\ results \in OutcomeLists
    /\ uml_diagram = None
    /\ uml_diagrams = <<>>
    /\ range_pos = 0
    /\ iteration = 0
    /\ iterations = 0
    /\ current_code = EmptyText
    /\ current_tests = EmptyText
    /\ verification_results = <<>>
    /\ final_status = "unknown"
    /\ error_summary = <<>>
    /\ metrics = EmptyMetrics
    /\ genCalls = 0
    /\ verifyCalls = 0
    /\ repairCalls = 0
    /\ raised = None
    /\ firstTests = NoText
    /\ verified = <<NoText, NoText>>
    /\ repairRet = NoText
    /\ genHint = None
    /\ passStart = <<NoText, NoText>>
    /\ venv = NoVerifyEnv
    /\ vpc = "idle"
    /\ tmp = {}
    /\ vres = <<>>
    /\ pending = NoResult
    /\ vexc = FALSE
    /\ cancel_requested = FALSE
    /\ response = <<>>

\* pipeline.py line 183: self.verifier.get_error_summary(results)
CallSummary ==
    /\ pc = "call_summary"
    /\ error_summary' = get_error_summary(results)
    /\ pc' = "call_metrics"
    /\ UNCHANGED <<response, cancel_requested, verifierVars, config, umlVars, loopVars,
                   artifactVars, verifyVars, final_status, metrics, callVars,
                   raised, histVars>>

\* pipeline.py lines 170-172, 197: the results are recorded after the earlier
\* records and self._calculate_metrics(verification_results, iterations)
CallMetrics ==
    /\ pc = "call_metrics"
    /\ \E earlier \in EarlierRecords :
         verification_results' =
             Append(earlier,
                    [iteration |-> Len(earlier) + 1, results |-> results])
    /\ iterations' = Len(verification_results')
    /\ metrics' = _calculate_metrics(verification_results', iterations')
    /\ pc' = "called"
    /\ UNCHANGED <<response, cancel_requested, verifierVars, config, umlVars, range_pos,
                   iteration, artifactVars, results, final_status,
                   error_summary, callVars, raised, histVars>>

NextSummary ==
    \/ CallSummary
    \/ CallMetrics

SpecSummary == InitSummary /\ [][NextSummary]_vars

---------------------------------------------------------------------------
(* Pipeline.run with a caller that may ask for cancellation.  Pipeline has  *)
(* no cancellation input: no step of run reads the request                  *)

\* the caller asks for the cancellation of the run, at any moment before
\* the run has ended
Cancel ==
    /\ ~cancel_requested
    /\ pc \notin {"done", "raised"}
    /\ cancel_requested' = TRUE
    /\ UNCHANGED <<response, verifierVars, config, pipelineVars>>

NextCancel ==
    \/ Next
    \/ Cancel

SpecCancel == Init /\ [][NextCancel]_vars

---------------------------------------------------------------------------
(* Pipeline.run with every step eventually taken: each collaborator call    *)
(* returns or raises                                                        *)

FairSpec == Spec /\ WF_vars(Next)

\* every run ends: it returns its result or is left by an exception
RunEnds == <>(pc \in {"done", "raised"})

---------------------------------------------------------------------------
(* code_generator.py: CodeGenerator.generate and _parse_response.  A string *)
(* is the sequence of its lines (str.split('\n')): "" is <<"">>.  The lines *)
(* of a response carry no leading or trailing blanks                        *)

\* most lines of a response
MaxLines == 6

\* the lines of a response: fences with and without a language tag, a line
\* of implementation, a line of tests, an empty line, a line of explanation
\* (<fence> stands for the marker of three backquotes)
FenceLines == {"<fence>python", "<fence>pytest", "<fence>"}
ResponseLines == FenceLines \cup {"c1", "t1", "", "text"}

Responses == UNION { [1..n -> ResponseLines] : n \in 1..MaxLines }

EmptyString == <<"">>

\* line 112: the stripped line starts with three backquotes
IsFence(line) == line \in FenceLines

\* line 126: 'test' in code_lang.lower() or 'teste' in code_lang.lower()
IsTestLang(line) == line = "<fence>pytest"

\* '\n'.join(current_block)
JoinBlock(block) == IF block = <<>> THEN EmptyString ELSE block

\* str.strip() of a string whose lines carry no blanks: the empty lines
\* at both ends go
RECURSIVE LStrip(_)
LStrip(s) ==
    IF Len(s) > 1 /\ Head(s) = "" THEN LStrip(Tail(s)) ELSE s

RECURSIVE RStrip(_)
RStrip(s) ==
    IF Len(s) > 1 /\ s[Len(s)] = "" THEN RStrip(SubSeq(s, 1, Len(s) - 1))
    ELSE s

Strip(s) == RStrip(LStrip(s))

\* lines 96-105: the locals of _parse_response before the loop
ParseStart ==
    [code |-> EmptyString, tests |-> EmptyString, explanation |-> <<>>,
     in_code_block |-> FALSE, in_test_block |-> FALSE, current_block |-> <<>>]

\* lines 108-137: one turn of the while loop, on one line
ParseLine(st, line) ==
    IF IsFence(line)
    THEN IF st.in_code_block \/ st.in_test_block
         THEN \* lines 113-122: the end of the open block
              [st EXCEPT
                 !.tests = IF st.in_test_block
                           THEN JoinBlock(st.current_block) ELSE @,
                 !.code = IF ~st.in_test_block /\ st.in_code_block
                          THEN JoinBlock(st.current_block) ELSE @,
                 !.current_block = <<>>,
                 !.in_code_block = FALSE,
                 !.in_test_block = FALSE]
         ELSE \* lines 123-129: the start of a block
              IF IsTestLang(line)
              THEN [st EXCEPT !.in_test_block = TRUE]
              ELSE [st EXCEPT !.in_code_block = TRUE]
    ELSE IF st.in_code_block \/ st.in_test_block
         THEN [st EXCEPT !.current_block = Append(@, line)]
         ELSE \* lines 132-135: a line of explanation
              IF line # ""
              THEN [st EXCEPT !.explanation = Append(@, line)]
              ELSE st

RECURSIVE ParseLines(_, _)
ParseLines(st, lines) ==
    IF lines = <<>> THEN st
    ELSE ParseLines(ParseLine(st, Head(lines)), Tail(lines))

\* lines 140-144: a block is still open at the end of the response
ParseOpenBlock(st) ==
    IF st.current_block # <<>>
    THEN IF st.in_test_block
         THEN [st EXCEPT !.tests = JoinBlock(st.current_block)]
         ELSE IF st.in_code_block
              THEN [st EXCEPT !.code = JoinBlock(st.current_block)]
              ELSE st
    ELSE st

\* lines 94-151
_parse_response(resp) ==
    LET st == ParseOpenBlock(ParseLines(ParseStart, resp))
        \* lines 147-149: if not code: code = response
        code == IF st.code = EmptyString THEN resp ELSE st.code
    IN  [code |-> Strip(code), tests |-> Strip(st.tests),
         explanation |-> st.explanation]

InitParse ==
    /\ config \in { c \in Configs :
                      /\ c.max_iterations = MaxIter
                      /\ c.run_tests /\ c.run_linter /\ c.run_formal
                      /\ c.language = "python" /\ ~c.generate_uml }
    /\ pc = "llm"
    /\ response = <<>>
    /\ results = <<>>
    /\ uml_diagram = None
    /\ uml_diagrams = <<>>
    /\ range_pos = 0
    /\ iteration = 0
    /\ iterations = 0
    /\ current_code = EmptyText
    /\ current_tests = EmptyText
    /\ verification_results = <<>>
    /\ final_status = "unknown"
    /\ error_summary = <<>>
    /\ metrics = EmptyMetrics
    /\ genCalls = 0
    /\ verifyCalls = 0
    /\ repairCalls = 0
    /\ raised = None
    /\ firstTests = NoText
    /\ verified = <<NoText, NoText>>
    /\ repairRet = NoText
    /\ genHint = None
    /\ passStart = <<NoText, NoText>>
    /\ venv = NoVerifyEnv
    /\ vpc = "idle"
    /\ tmp = {}
    /\ vres = <<>>
    /\ pending = NoResult
    /\ vexc = FALSE
    /\ cancel_requested = FALSE

\* code_generator.py line 82: response = self.llm_client.generate(prompt)
LlmReturns ==
    /\ pc = "llm"
    /\ response' \in Responses
    /\ pc' = "parse"
    /\ UNCHANGED <<cancel_requested, verifierVars, config, umlVars, loopVars,
                   artifactVars, verifyVars, final_status, error_summary,
                   metrics, callVars, raised, histVars>>

\* code_generator.py lines 85-92 and pipeline.py lines 146-147: the response
\* is parsed and its code and tests become current_code and current_tests
ParseResponse ==
    /\ pc = "parse"
    /\ LET generated == _parse_response(response)
       IN  /\ current_code' = generated.code
           /\ current_tests' = generated.tests
    /\ pc' = "parsed"
    /\ UNCHANGED <<response, cancel_requested, verifierVars, config, umlVars,
                   loopVars, verifyVars, final_status, error_summary,
                   metrics, callVars, raised, histVars>>

NextParse ==
    \/ LlmReturns
    \/ ParseResponse

SpecParse == InitParse /\ [][NextParse]_vars

\* run has returned its PipelineResult
Returned == pc = "done"


---------------------------------------------------------------------------
(* Properties of the repair loop *)

M == config.max_iterations

\* every outcome of an iteration record has status pass
RecordAllPass(rec) ==
    \A i \in 1..Len(rec.results) : rec.results[i].status = "pass"

\* some outcome of an iteration record has status fail
RecordHasFail(rec) ==
    \E i \in 1..Len(rec.results) : rec.results[i].status = "fail"

LastRecord == verification_results[Len(verification_results)]

NoCallRaised == raised = None

\* C1: for every configured maximum M >= 1 run performs at most M verify
\* passes, and it performs exactly M passes only if no earlier pass (1..M-1)
\* had all of its outcomes equal to pass.
C1_AtMostMVerifyPasses ==
    M >= 1 =>
      /\ verifyCalls <= M
      /\ verifyCalls = M =>
           \A i \in 1..Len(verification_results) :
              i < M => ~RecordAllPass(verification_results[i])

\* M >= 2 passes were verified, the last one being pass M
C1_Witness ==
    /\ Returned
    /\ M >= 2
    /\ verifyCalls = M

\* C2: after a non-passing pass whose repair call returns, the code given to
\* verify in the next pass is the code that repair returned, and generate is
\* called at most once per run.
C2_RepairReplacesGenerate ==
    /\ genCalls <= 1
    /\ (pc = "decide" /\ repairCalls >= 1) => verified[1] = repairRet

\* C3: the tests given to verify in every pass i >= 2 are the tests produced
\* by the first generation.
C3_TestsUnchangedAcrossRepairs ==
    (pc = "decide" /\ verifyCalls >= 2) => verified[2] = firstTests

\* C4: when run returns with at least one iteration record, final_status is
\* success if and only if every outcome of the last record has status pass.
C4_SuccessIffLastRecordPasses ==
    (Returned /\ verification_results # <<>>) =>
      (final_status = "success" <=> RecordAllPass(LastRecord))

\* run returned success after a pass that did not pass
C4_Witness ==
    /\ Returned
    /\ Len(verification_results) >= 2
    /\ final_status = "success"

\* C5: with M = 0 no generate, repair or verify call is made, and run returns
\* final_status unknown, iterations 0, no record and empty code and tests.
C5_ZeroBudget ==
    M = 0 =>
      /\ genCalls = 0 /\ verifyCalls = 0 /\ repairCalls = 0
      /\ Returned =>
           /\ final_status = "unknown"
           /\ iterations = 0
           /\ verification_results = <<>>
           /\ current_code = EmptyText
           /\ current_tests = EmptyText

\* run returned with M = 0
C5_Witness == Returned /\ M = 0

\* C6: at return of every run the number of iteration records equals the
\* reported iterations, and both are at most M.
C6_RecordsEqualIterations ==
    Returned =>
      /\ Len(verification_results) = iterations
      /\ iterations <= M

\* a pass had all outcomes pass, or pass M has been verified, or a generate
\* or repair call has raised
LoopOver ==
    \/ verification_results # <<>> /\ RecordAllPass(LastRecord)
    \/ M >= 1 /\ Len(verification_results) = M
    \/ raised \in {"generate", "repair"}

\* C7: once a pass has had all outcomes pass, or pass M has been verified, or
\* a generate or repair call has raised, no further generate, repair or
\* verify call is made.
C7_NoCallAfterTerminal ==
    [][LoopOver => /\ genCalls' = genCalls
                   /\ repairCalls' = repairCalls
                   /\ verifyCalls' = verifyCalls]_vars

\* pass M did not pass and the loop is about to look for another iteration
C7_Witness ==
    /\ pc = "loop"
    /\ M >= 1
    /\ Len(verification_results) = M

\* C8: if every verify pass 1..M (M >= 1) contains a non-pass outcome and no
\* collaborator call raises, run returns failed with iterations = M, and
\* repair is called exactly M-1 times, never after pass M.
C8_AllPassesFail ==
    /\ (pc = "repair" /\ M >= 1) => Len(verification_results) < M
    /\ ( /\ Returned /\ M >= 1 /\ NoCallRaised
         /\ \A i \in 1..Len(verification_results) :
               ~RecordAllPass(verification_results[i]) )
       => /\ final_status = "failed"
          /\ iterations = M
          /\ Len(verification_results) = M
          /\ repairCalls = M - 1

\* three passes failed and run returned
C8_Witness ==
    /\ Returned /\ NoCallRaised
    /\ M = 3
    /\ \A i \in 1..Len(verification_results) :
          ~RecordAllPass(verification_results[i])

\* C9: if passes 1..k-1 each contain a non-pass outcome and pass k
\* (1 <= k <= M) has all outcomes pass, with no collaborator call raising,
\* run returns success with iterations = k and repair was called exactly
\* k-1 times.
C9_SuccessAtPassK ==
    ( /\ Returned /\ NoCallRaised
      /\ verification_results # <<>>
      /\ RecordAllPass(LastRecord)
      /\ \A i \in 1..(Len(verification_results) - 1) :
            ~RecordAllPass(verification_results[i]) )
    => /\ final_status = "success"
       /\ iterations = Len(verification_results)
       /\ iterations <= M
       /\ repairCalls = Len(verification_results) - 1

\* two passes with a fail outcome, then a pass whose outcomes all pass
C9_Witness ==
    /\ Returned /\ NoCallRaised
    /\ Len(verification_results) = 3
    /\ RecordHasFail(verification_results[1])
    /\ RecordHasFail(verification_results[2])
    /\ RecordAllPass(verification_results[3])

\* C10: whenever a generate call or a repair call raises, the returned
\* final_status is an abort indicator distinct from success, failed and
\* unknown.
C10_AbortIsDistinct ==
    (Returned /\ raised \in {"generate", "repair"}) =>
      final_status \notin {"success", "failed", "unknown"}


---------------------------------------------------------------------------
(* Properties of the failure handling and of the verifier *)

\* C11: if the generate call raises in pass i, the loop stops at once: no
\* verify, repair or further generate call follows, and the code and tests
\* are those held at the end of pass i-1 (the code repaired in pass i-1 and
\* the tests verified in it; both empty when i = 1).
C11_GenerateFailureStops ==
    raised = "generate" =>
      /\ pc \in {"finish", "done"}
      /\ genCalls = iterations
      /\ verifyCalls = iterations - 1
      /\ repairCalls = iterations - 1
      /\ <<current_code, current_tests>> = passStart
      /\ IF iterations = 1
         THEN current_code = EmptyText /\ current_tests = EmptyText
         ELSE current_code = repairRet /\ current_tests = verified[2]

\* generate raised in a pass after the first, and run returned
C11_Witness ==
    /\ Returned
    /\ raised = "generate"
    /\ iterations >= 2

\* C12: if the repair call raises in pass i, the loop stops with no further
\* generate or verify call, the record of pass i is kept, and the returned
\* code is the pre-repair code that was verified in pass i.
C12_RepairFailureStops ==
    raised = "repair" =>
      /\ pc \in {"finish", "done"}
      /\ genCalls = iterations
      /\ verifyCalls = iterations
      /\ repairCalls = iterations
      /\ Len(verification_results) = iterations
      /\ LastRecord.iteration = iterations
      /\ LastRecord.results = results
      /\ current_code = verified[1]
      /\ current_tests = verified[2]

\* repair raised in the second pass, and run returned
C12_Witness ==
    /\ Returned
    /\ raised = "repair"
    /\ iterations = 2

\* C13: if generate raises in the first pass, no verification outcome is
\* recorded (no record, empty metrics) and the reported iterations is the
\* same value, 1, on every such run.
C13_FirstGenerateFails ==
    (Returned /\ raised = "generate" /\ genCalls = 1) =>
      /\ verification_results = <<>>
      /\ DOMAIN metrics = {}
      /\ iterations = 1

\* run returned after the first generate call raised
C13_Witness ==
    /\ Returned
    /\ raised = "generate"
    /\ genCalls = 1

\* the outcomes of vres reported for a tool
OutcomesOf(rs, tool) == { rs[i] : i \in { j \in 1..Len(rs) : rs[j].tool = tool } }

IsTimeoutOutcome(r) == r.status = "error" /\ r.errors = <<"Timeout">>

\* C14: for every check (test execution and each linter), a check that
\* exceeds its time bound yields an outcome with status error whose error
\* list is exactly ["Timeout"].
C14_TimeoutIsErrorTimeout ==
    VerifyReturned =>
      /\ venv.tests = "timeout" =>
           \A r \in OutcomesOf(vres, "tests") : IsTimeoutOutcome(r)
      /\ (venv.pylint.kind = "timeout"
          \/ (venv.pylint.kind = "notfound" /\ venv.flake8.kind = "timeout")) =>
           \A r \in OutcomesOf(vres, "linter") : IsTimeoutOutcome(r)

\* some outcome has status error
HasErrorOutcome(rs) == \E i \in 1..Len(rs) : rs[i].status = "error"

\* C15: a pass i < M in which some check outcome has status error does not
\* end the run with success and does not abort the loop: the loop goes on to
\* the repair call of that pass.
C15_ErrorOutcomeLeadsToRepair ==
    [][(pc = "decide" /\ HasErrorOutcome(results) /\ iterations < M) =>
          /\ pc' = "repair"
          /\ final_status' = "unknown"
          /\ raised' = None
          /\ verification_results' = verification_results]_vars

\* the repair call of a pass whose tests check timed out is about to be made
C15_Witness ==
    /\ pc = "repair"
    /\ \E i \in 1..Len(results) : IsTimeoutOutcome(results[i])

\* the tools of the outcomes, in order
RECURSIVE ToolsOf(_)
ToolsOf(rs) == IF rs = <<>> THEN <<>> ELSE <<Head(rs).tool>> \o ToolsOf(Tail(rs))

EnabledTools ==
    (IF config.run_tests THEN <<"tests">> ELSE <<>>)
    \o (IF config.run_linter THEN <<"linter">> ELSE <<>>)
    \o (IF config.run_formal THEN <<"formal">> ELSE <<>>)

\* C16: verify returns exactly one outcome per enabled check and none for a
\* disabled check, in the order tests, linter, formal, whatever the results;
\* with at least one check enabled the result is not empty.
C16_OneOutcomePerEnabledCheck ==
    VerifyReturned =>
      /\ ToolsOf(vres) = EnabledTools
      /\ (config.run_tests \/ config.run_linter \/ config.run_formal)
           => vres # <<>>

\* verify returned with two checks enabled and one disabled
C16_Witness ==
    /\ VerifyReturned
    /\ config.run_tests /\ config.run_linter /\ ~config.run_formal
    /\ config.language = "python"
    /\ Len(vres) = 2

\* C17: for a language other than python every enabled tests and linter
\* check yields status skipped with an empty error list, on every pass.
C17_UnsupportedLanguageSkipped ==
    config.language # "python" =>
      \A i \in 1..Len(verification_results) :
         LET rs == verification_results[i].results
         IN  /\ config.run_tests => OutcomesOf(rs, "tests") # {}
             /\ config.run_linter => OutcomesOf(rs, "linter") # {}
             /\ \A r \in OutcomesOf(rs, "tests") \cup OutcomesOf(rs, "linter") :
                   r.status = "skipped" /\ r.errors = <<>>

\* two passes of a java run with tests and linter enabled were recorded
C17_Witness ==
    /\ config.language = "java"
    /\ config.run_tests /\ config.run_linter
    /\ Len(verification_results) >= 2

\* C18: when the designated tool of a check cannot be located, the runner
\* does not raise and the outcome is skipped, or the outcome of the fallback
\* tool (flake8 for pylint; both missing yields skipped): a missing tool
\* never yields status error or fail.
C18_MissingToolIsSkipped ==
    /\ (venv.tests = "notfound" /\ VerifyReturned) =>
         \A r \in OutcomesOf(vres, "tests") : r.status = "skipped"
    /\ venv.pylint.kind = "notfound" =>
         /\ ~VerifyRaised
         /\ VerifyReturned =>
              \A r \in OutcomesOf(vres, "linter") :
                 IF venv.flake8.kind = "notfound"
                 THEN r.status = "skipped"
                 ELSE r = _run_flake8(venv.flake8)

\* C19: no verification-level condition (timeout, missing tool, tool crash,
\* failure to create the temporary storage) makes verify or run raise.
C19_VerifyNeverRaises == pc # "raised"

\* C20: every temporary file or directory a check creates is released before
\* that check is left, on every exit path; after verify no check-local
\* storage remains.
C20_TemporaryStorageReleased ==
    /\ vpc \in {"linter", "formal"} => tmp = {}
    /\ (VerifyReturned \/ VerifyRaised) => tmp = {}

---------------------------------------------------------------------------
(* Properties of the aggregation: pass decision, digest and metrics *)

\* the pieces of a text
Pieces(text) == { text[i] : i \in 1..Len(text) }

\* the outcomes of status fail, in order
FailOutcomes(rs) == SelectSeq(rs, LAMBDA r : r.status = "fail")

\* the texts of a sequence, one after the other
RECURSIVE Concat(_)
Concat(texts) ==
    IF Len(texts) = 0 THEN <<>> ELSE Head(texts) \o Concat(Tail(texts))

\* C21: the pass decision of the loop is true iff every outcome has status
\* pass: any outcome with status fail, error or skipped makes it false, and
\* the empty outcome list makes it true.  The decision of a pass is success
\* exactly when every outcome of that pass has status pass.
C21_AllPassedDecidesSuccess ==
    [][pc = "decide" =>
         /\ (final_status' = "success" /\ pc' = "finish")
              <=> (\A i \in 1..Len(results) : results[i].status = "pass")
         /\ (\E i \in 1..Len(results) :
                results[i].status \in {"fail", "error", "skipped"})
              => final_status' # "success"]_vars

\* a pass with a passed and a skipped check, and no failed one, was decided
\* as not passed
C21_Witness ==
    /\ pc = "repair"
    /\ final_status # "success"
    /\ \E i \in 1..Len(results) : results[i].status = "pass"
    /\ \E i \in 1..Len(results) : results[i].status = "skipped"
    /\ \A i \in 1..Len(results) : results[i].status \in {"pass", "skipped"}

\* C22: the digest draws only on the outcomes of status fail: it is empty
\* for the empty list and for any list with no fail outcome, and taking the
\* outcomes of status error, skipped or pass away leaves it as it is.
C22_DigestOnlyOfFailOutcomes ==
    pc # "call_summary" =>
      /\ FailOutcomes(results) = <<>> => error_summary = <<>>
      /\ error_summary = get_error_summary(FailOutcomes(results))

\* the digest of an error outcome and a skipped outcome that both carry
\* errors is empty
C22_Witness ==
    /\ pc # "call_summary"
    /\ Len(results) = 2
    /\ results[1].status = "error" /\ Len(results[1].errors) = MaxErrors
    /\ results[2].status = "skipped" /\ results[2].errors # <<>>
    /\ error_summary = <<>>

\* the first three errors at most, each on its own line
DigestLines(errors) ==
    LET n == IF Len(errors) < 3 THEN Len(errors) ELSE 3
    IN  Concat([j \in 1..n |->
                  IF j = 1 THEN <<errors[j]>> ELSE <<"\n", errors[j]>>])

\* C23: for each fail outcome, in the order of the list, the digest holds
\* one entry: "[tool] " followed by the first min(3, n) errors of the outcome
\* in their order, and no later error; the entries are separated by one
\* blank line.
C23_DigestEntries ==
    pc # "call_summary" =>
      LET fails == FailOutcomes(results)
      IN  error_summary =
            Concat([i \in 1..Len(fails) |->
                      (IF i = 1 THEN <<>> ELSE <<"\n\n">>)
                      \o <<"[", fails[i].tool, "] ">>
                      \o DigestLines(fails[i].errors)])

\* the digest of two fail outcomes, the first with four errors: the fourth
\* error is dropped, the errors of the second keep their order
C23_Witness ==
    /\ pc # "call_summary"
    /\ Len(results) = 2
    /\ results[1].status = "fail" /\ results[1].errors = <<"e1", "e2", "e3", "e4">>
    /\ results[2].status = "fail" /\ results[2].errors = <<"e2", "e1">>
    /\ "e4" \notin Pieces(error_summary)
    /\ "\n\n" \in Pieces(error_summary)

\* the metrics a record alone stands for
MetricsOfRecord(rec) == _calculate_metrics(<<rec>>, rec.iteration)

\* C24: the reported metrics depend only on the last record: every field,
\* iterations included, is the one this record stands for, whatever came
\* before it, so that two runs ending with the same record report the same
\* metrics.
C24_MetricsOfLastRecord ==
    (Returned /\ verification_results # <<>>) =>
       metrics = MetricsOfRecord(LastRecord)

\* C25: for a non-empty record sequence tests_passed is true iff some outcome
\* of the last record has tool tests and status pass (likewise linter_passed),
\* total_verifications is the number of outcomes of the last record and
\* passed_verifications the number of those with status pass.
C25_MetricsFields ==
    pc = "called" =>
      LET last == LastRecord.results
      IN  /\ metrics.tests_passed
               = (\E r \in OutcomesOf(last, "tests") : r.status = "pass")
          /\ metrics.linter_passed
               = (\E r \in OutcomesOf(last, "linter") : r.status = "pass")
          /\ metrics.total_verifications = Len(last)
          /\ metrics.passed_verifications
               = Cardinality({ i \in 1..Len(last) : last[i].status = "pass" })

\* after an iteration whose checks all passed, the last record has a failed
\* tests check and a passed linter check
C25_Witness ==
    /\ pc = "called"
    /\ Len(verification_results) = 2
    /\ ~metrics.tests_passed
    /\ metrics.linter_passed
    /\ metrics.total_verifications = 2
    /\ metrics.passed_verifications = 1

\* C26: the metrics of an empty record sequence are empty (no field), and
\* nothing is raised: run returns them whenever it recorded no iteration,
\* that is when M = 0 or generate failed in the first pass.
C26_EmptyMetrics ==
    Returned =>
      /\ verification_results = <<>> => DOMAIN metrics = {}
      /\ verification_results = <<>>
           <=> (M = 0 \/ (raised = "generate" /\ genCalls = 1))

\* a run with a budget of two or more returned after its first generate raised
C26_Witness ==
    /\ Returned
    /\ M >= 2
    /\ raised = "generate"
    /\ verification_results = <<>>
    /\ DOMAIN metrics = {}

\* the positions of run inside a pass of the loop
InPass == {"generate", "verify", "decide", "repair"}

\* C27: the length of the record sequence increases by exactly 1 in every
\* pass that is started, a pass ended by a generation failure included: it
\* never decreases, never skips, and when a pass ends there are as many
\* records as passes started.
C27_OneRecordPerPass ==
    [][/\ Len(verification_results') \in
            {Len(verification_results), Len(verification_results) + 1}
       /\ (pc \in InPass /\ pc' \notin InPass)
            => Len(verification_results') = iterations']_vars

\* C28: a tests check that runs to completion yields status pass when the
\* exit code is 0 and status fail otherwise, with the stderr of the runner as
\* its error text when not empty; it yields status error only on a timeout
\* or a failure of the environment.
C28_CompletedTestsPassOrFail ==
    (VerifyReturned /\ config.run_tests /\ config.language = "python") =>
       \A r \in OutcomesOf(vres, "tests") :
          /\ venv.tests = "rc0" => r.status = "pass"
          /\ venv.tests = "rc1" => r.status = "fail" /\ r.errors = <<>>
          /\ venv.tests = "rc1_stderr"
               => r.status = "fail" /\ r.errors = <<"stderr">>
          /\ r.status = "error"
               => venv.tests \notin {"rc0", "rc1", "rc1_stderr"}

\* C29: when every generate, repair and check call returns or raises, every
\* run ends by returning a result, after at most M passes: a run that has
\* not returned can take a step, and no more than M passes are started.
C29_RunReturnsWithinBudget ==
    /\ Returned \/ ENABLED Next
    /\ iterations <= M

\* C30: a cancellation asked for by the caller is honoured between the
\* iterations: it is looked at before the generate call of each pass, and
\* once it is asked for no further pass is started.
C30_CancelledStartsNoPass ==
    [][cancel_requested => ~(pc = "loop" /\ pc' = "generate")]_vars

---------------------------------------------------------------------------
(* Properties of the repair calls and of the returned result *)

\* what a repair call made now would be given: the code verified in this
\* pass and the digest of the outcomes recorded for this pass
RepairInputsFresh ==
    /\ Len(verification_results) = iterations
    /\ LastRecord.iteration = iterations
    /\ current_code = verified[1]
    /\ error_summary = get_error_summary(LastRecord.results)
    /\ iterations < M
    /\ ~RecordAllPass(LastRecord)

\* C31: every repair call of pass i is given the code verified in pass i and
\* the digest of the outcomes of pass i, never those of an earlier pass, and
\* the digest is computed only when a repair is about to be asked for (i < M
\* and not all passed).
C31_RepairInputsOfThisPass ==
    [][/\ pc' = "repair" => RepairInputsFresh'
       /\ error_summary' # error_summary => (pc = "decide" /\ pc' = "repair")
      ]_vars

\* the repair of a second pass whose digest is not the one of the first pass
C31_Witness ==
    /\ pc = "repair"
    /\ Len(verification_results) = 2
    /\ error_summary # <<>>
    /\ get_error_summary(verification_results[1].results) # error_summary

\* C32: a repair call is made only in a pass whose record has been appended
\* and holds an outcome that is not pass; the number of repair calls is at
\* most the number of records and, for M >= 1, at most M - 1.
C32_RepairCallsBounded ==
    /\ pc = "repair" =>
         /\ Len(verification_results) = iterations
         /\ \E i \in 1..Len(LastRecord.results) :
               LastRecord.results[i].status # "pass"
    /\ repairCalls <= Len(verification_results)
    /\ M >= 1 => repairCalls <= M - 1

\* a run of the largest budget that repaired after every pass but the last
C32_Witness ==
    /\ Returned
    /\ M = MaxIter
    /\ repairCalls = M - 1
    /\ Len(verification_results) = M

\* C33: the reported iterations is the number of generate calls made, a call
\* that raised included; the number of records is iterations - 1 exactly when
\* the last generate call raised, and iterations otherwise.
C33_IterationsAreGenerateCalls ==
    Returned =>
      /\ iterations = genCalls
      /\ Len(verification_results) =
           (IF raised = "generate" THEN iterations - 1 ELSE iterations)

\* a run returned after the generate call of its second pass raised
C33_Witness ==
    /\ Returned
    /\ raised = "generate"
    /\ genCalls = 2
    /\ Len(verification_results) = 1

\* C34: failed is returned only when M >= 1, exactly M records exist,
\* iterations = M and the last record holds an outcome that is not pass; it
\* is never returned after a generation or repair failure.
C34_FailedOnlyAfterLastPass ==
    (Returned /\ final_status = "failed") =>
       /\ M >= 1
       /\ Len(verification_results) = M
       /\ iterations = M
       /\ \E i \in 1..Len(LastRecord.results) :
             LastRecord.results[i].status # "pass"
       /\ raised = None

\* a run of two passes returned failed
C34_Witness ==
    /\ Returned
    /\ final_status = "failed"
    /\ M = 2
    /\ repairCalls = 1

\* C35: when the status is success the returned code and tests are the ones
\* given to the verify call that produced the last record, no generate or
\* repair call was made after it, and passed_verifications equals
\* total_verifications.
C35_SuccessArtifactsVerified ==
    (Returned /\ final_status = "success") =>
       /\ <<current_code, current_tests>> = verified
       /\ verifyCalls = Len(verification_results)
       /\ genCalls = Len(verification_results)
       /\ repairCalls = Len(verification_results) - 1
       /\ metrics.passed_verifications = metrics.total_verifications

\* a run returned success in its second pass, after one repair
C35_Witness ==
    /\ Returned
    /\ final_status = "success"
    /\ Len(verification_results) = 2
    /\ metrics.total_verifications >= 1

\* a check whose outcome is skipped whatever the tools do is enabled
SkippedCheckEnabled ==
    \/ config.run_formal
    \/ config.language # "python" /\ (config.run_tests \/ config.run_linter)

\* C36: when the formal check is enabled, or tests or linter are enabled for
\* a language other than python, no run returns success: a run with M >= 1
\* and no generation or repair failure executes exactly M passes and returns
\* failed.
C36_SkippedCheckNeverSucceeds ==
    SkippedCheckEnabled =>
      /\ final_status # "success"
      /\ (M >= 1 /\ pc \in {"done", "raised"}
               /\ raised \notin {"generate", "repair"})
           => /\ Returned
              /\ final_status = "failed"
              /\ iterations = M
              /\ Len(verification_results) = M

NoCheckEnabled == ~config.run_tests /\ ~config.run_linter /\ ~config.run_formal

\* C37: when no check is enabled every run with M >= 1 whose first generate
\* call returns ends with success after exactly one pass, with one record
\* holding no outcome and no repair call.
C37_NoCheckSucceedsAtOnce ==
    (NoCheckEnabled /\ M >= 1) =>
      /\ pc # "repair" /\ pc # "raised"
      /\ (Returned /\ ~(raised = "generate" /\ genCalls = 1)) =>
           /\ final_status = "success"
           /\ iterations = 1
           /\ genCalls = 1
           /\ repairCalls = 0
           /\ verification_results = <<[iteration |-> 1, results |-> <<>>]>>

\* a run of the largest budget with no check enabled returned success
C37_Witness ==
    /\ Returned
    /\ NoCheckEnabled
    /\ M = MaxIter
    /\ final_status = "success"
    /\ verification_results = <<[iteration |-> 1, results |-> <<>>]>>

\* C38: _run_python_tests returns an outcome of tool tests on every path
\* (pass, fail, timeout, exception while running, exception while preparing
\* the temporary directory): it never returns nothing and never lets an
\* exception out.
C38_TestsCheckAlwaysReturns ==
    [][(vpc \in {"tests", "tests_run"}
          /\ config.run_tests /\ config.language = "python") =>
         /\ vpc' \in {"tests_run", "linter"}
         /\ vpc' = "linter" =>
              /\ Len(vres') = Len(vres) + 1
              /\ vres'[Len(vres')] # NoResult
              /\ vres'[Len(vres')].tool = "tests"
              /\ vres'[Len(vres')].status \in {"pass", "fail", "error"}
      ]_vars

\* the tests check returned after its run timed out
C38_Witness ==
    /\ vpc = "linter"
    /\ config.run_tests /\ config.language = "python"
    /\ venv.tests = "timeout"
    /\ Len(vres) = 1 /\ vres[1].tool = "tests"

\* the diagram stage was run and raised: it is over and left no diagram
DiagramRaised == config.generate_uml /\ pc # "uml" /\ uml_diagrams = <<>>

\* C39: a failure of the diagram stage does not stop the pipeline: the run
\* records no diagram and still enters the loop, where generate is called
\* with no design hint.
C39_DiagramFailureGoesOn ==
    DiagramRaised =>
      /\ uml_diagram = None
      /\ genCalls >= 1 => genHint = None
      /\ (Returned /\ M >= 1) => genCalls >= 1

\* after a diagram failure generate was called, with no design hint
C39_Witness ==
    /\ DiagramRaised
    /\ pc = "verify"
    /\ genCalls = 1
    /\ genHint = None

---------------------------------------------------------------------------
(* Properties of the parsing of the generated response *)

\* the response has the format the generation prompt asks for: a fenced
\* block of implementation closed at line a, then a fenced block of tests
\* with the same language tag from line b to line c, then the explanation
RequestedFormat(resp, a, b, c) ==
    /\ 2 < a /\ a < b /\ b + 1 < c /\ c <= Len(resp)
    /\ resp[1] = "<fence>python"
    /\ \A i \in 2..(a - 1) : resp[i] = "c1"
    /\ resp[a] = "<fence>"
    /\ \A i \in (a + 1)..(b - 1) : resp[i] = ""
    /\ resp[b] = "<fence>python"
    /\ \A i \in (b + 1)..(c - 1) : resp[i] = "t1"
    /\ resp[c] = "<fence>"
    /\ \A i \in (c + 1)..Len(resp) : resp[i] \in {"", "text"}

\* C40: given a response in the format the generation prompt asks for (a
\* first fenced block with the implementation, then a second fenced block in
\* the same language with the tests), generate returns code equal to the
\* first block and tests equal to the second block.
C40_ParsesCodeAndTests ==
    pc = "parsed" =>
      \A a, b, c \in 1..Len(response) :
         RequestedFormat(response, a, b, c) =>
            /\ current_code = SubSeq(response, 2, a - 1)
            /\ current_tests = SubSeq(response, b + 1, c - 1)


====
